---------------------------- MODULE Spec2Model ----------------------------
(* A model of the AI Recruiter repository: the candidate ranker, the skill   *)
(* matcher and the profile extractors of src/src/utils.py, the lexical       *)
(* scorer of src/main.py and the Streamlit session script of src/app.py.     *)
(*                                                                           *)
(* A Python call is modelled by its outcome, a record                        *)
(*   [kind |-> "return", value |-> v]   or   [kind |-> "raise", exc |-> e].  *)
(* A float percentage is modelled by the exact fraction <<num, den>>.        *)
EXTENDS Integers, Sequences, FiniteSets, TLC

VARIABLES
    args,           \* the arguments of the function under call (pure-function specifications)
    ret,            \* its outcome, once called
    pc,             \* "call" before the call, "done" after it
    session_state,  \* st.session_state: a function from the keys that are set to their values
    last_run,       \* what the most recent script run did (its trigger, how it ended)
    last_analyze,   \* the uploads of the most recent run that entered the analyze block
    secrets_ok      \* whether st.secrets holds a usable GEMINI_API_KEY

vars == <<args, ret, pc, session_state, last_run, last_analyze, secrets_ok>>

(***************************************************************************)
(* Bounds of the model.                                                    *)
(***************************************************************************)
MaxCandidates == 3
MaxJobSkills == 2

(***************************************************************************)
(* General helpers.                                                        *)
(***************************************************************************)
Range(s) == {s[i] : i \in 1..Len(s)}

SeqsUpTo(S, n) == UNION {[1..k -> S] : k \in 0..n}

Return(v) == [kind |-> "return", value |-> v]

Raise(e) == [kind |-> "raise", exc |-> e]

None == [kind |-> "none"]

(***************************************************************************)
(* rank_candidates (src/src/utils.py).                                     *)
(***************************************************************************)
\* A percentage as an exact fraction, and the order and equality of two.
Percentage(num, den) == <<num, den>>

PctLess(p, q) == p[1] * q[2] < q[1] * p[2]

PctEq(p, q) == p[1] * q[2] = q[1] * p[2]

\* A seeded fault: the overlap counted over the candidate's list, duplicates included.
MatchScoreCountingDuplicates(job_skills_set, skills) ==
    Cardinality({i \in 1..Len(skills) : skills[i] \in job_skills_set})

\* len(job_skills_set.intersection(set(candidate['skills'])))
MatchScore(job_skills_set, skills) ==
    Cardinality(job_skills_set \cap Range(skills))

\* job_skills_set = set(job_skills)
JobSkillsSet(job_skills) == Range(job_skills)

\* A seeded fault: the percentage taken over the job skill list, duplicates included.
JobSkillCountOfList(job_skills) == Len(job_skills)

\* len(job_skills_set)
JobSkillCount(job_skills) == Cardinality(JobSkillsSet(job_skills))

\* (match_score / len(job_skills_set)) * 100 if job_skills_set else 0
MatchPercentage(match_score, job_skills) ==
    IF JobSkillsSet(job_skills) # {}
    THEN Percentage(100 * match_score, JobSkillCount(job_skills))
    ELSE Percentage(0, 1)

\* The loop body: the candidate's dict with its two keys set, the rest kept.
ScoreCandidate(job_skills, candidate) ==
    LET match_score == MatchScore(JobSkillsSet(job_skills), candidate.skills)
    IN  [k \in DOMAIN candidate \cup {"match_score", "match_percentage"} |->
            IF k = "match_score" THEN match_score
            ELSE IF k = "match_percentage" THEN MatchPercentage(match_score, job_skills)
            ELSE candidate[k]]

\* A seeded fault: an ascending stable sort followed by a reversal, which
\* reverses the input order of equal keys.
RECURSIVE SortAscendingThenReverse(_)
SortAscendingThenReverse(cands) ==
    IF cands = <<>> THEN <<>>
    ELSE LET n == Len(cands)
             x == cands[n]
             rest == SortAscendingThenReverse(SubSeq(cands, 1, n - 1))
             \* x goes before every element whose key is not greater than its own
             ahead == {i \in 1..Len(rest) :
                          PctLess(x.match_percentage, rest[i].match_percentage)}
             k == Cardinality(ahead)
         IN  SubSeq(rest, 1, k) \o <<x>> \o SubSeq(rest, k + 1, Len(rest))

\* candidate_data.sort(key=lambda x: x['match_percentage'], reverse=True):
\* list.sort is stable, and reverse=True keeps the input order of equal keys.
\* Each element, taken in input order, goes behind every element already
\* placed whose key is greater than or equal to its own.
RECURSIVE SortDescending(_)
SortDescending(cands) ==
    IF cands = <<>> THEN <<>>
    ELSE LET n == Len(cands)
             x == cands[n]
             rest == SortDescending(SubSeq(cands, 1, n - 1))
             ahead == {i \in 1..Len(rest) :
                          ~PctLess(rest[i].match_percentage, x.match_percentage)}
             k == Cardinality(ahead)
         IN  SubSeq(rest, 1, k) \o <<x>> \o SubSeq(rest, k + 1, Len(rest))

rank_candidates(job_skills, candidate_data) ==
    SortDescending([i \in 1..Len(candidate_data) |->
                        ScoreCandidate(job_skills, candidate_data[i])])

(***************************************************************************)
(* The specification of rank_candidates over bounded inputs.               *)
(***************************************************************************)
Skills == {"Python", "Sql"}

CandidateNames == <<"A", "B", "C", "D", "E">>

\* The job skill lists, duplicates included.
JobSkillLists == SeqsUpTo(Skills, MaxJobSkills)

\* A candidate's skill lists, duplicates included: as long as the universe is large.
SkillLists == SeqsUpTo(Skills, Cardinality(Skills))

\* Candidate i of an input list is named CandidateNames[i].
CandidateLists ==
    UNION {{[i \in 1..k |-> [name |-> CandidateNames[i], skills |-> f[i]]] :
                f \in [1..k -> SkillLists]} : k \in 0..MaxCandidates}

NoSession == [analysis_done |-> FALSE, chat_history |-> <<>>]

PureInit ==
    /\ ret = None
    /\ pc = "call"
    /\ session_state = NoSession
    /\ last_run = None
    /\ last_analyze = None
    /\ secrets_ok = FALSE

PureUnchanged == UNCHANGED <<args, session_state, last_run, last_analyze, secrets_ok>>

RankInit ==
    /\ args \in [job_skills : JobSkillLists, candidate_data : CandidateLists]
    /\ PureInit

CallRankCandidates ==
    /\ pc = "call"
    /\ ret' = Return(rank_candidates(args.job_skills, args.candidate_data))
    /\ pc' = "done"
    /\ PureUnchanged

RankNext == CallRankCandidates

SpecRank == RankInit /\ [][RankNext]_vars

\* The position of the candidate named n in a list of candidates.
IndexOf(cands, n) == CHOOSE i \in 1..Len(cands) : cands[i].name = n

NamesOf(cands) == [i \in 1..Len(cands) |-> cands[i].name]

\* C1: rank_candidates returns the input candidates, each once, in
\* non-increasing order of match_percentage, and two candidates of equal
\* match_percentage keep the relative order they had in the input.
C1_StableDescendingPermutation ==
    pc = "done" =>
        LET out == ret.value
            inp == args.candidate_data
        IN  /\ Len(out) = Len(inp)
            /\ Range(NamesOf(out)) = Range(NamesOf(inp))
            /\ \A i \in 1..Len(out) :
                   /\ out[i].skills = inp[IndexOf(inp, out[i].name)].skills
            /\ \A i, j \in 1..Len(out) :
                   i < j =>
                       /\ ~PctLess(out[i].match_percentage, out[j].match_percentage)
                       /\ PctEq(out[i].match_percentage, out[j].match_percentage)
                              => IndexOf(inp, out[i].name) < IndexOf(inp, out[j].name)

\* A tie ranked below a higher percentage that came later in the input, as in
\* [A(60%), B(60%), C(80%)] -> [C, A, B].
C1_Witness ==
    /\ pc = "done"
    /\ Len(ret.value) = 3
    /\ NamesOf(ret.value) = <<"C", "A", "B">>
    /\ PctEq(ret.value[2].match_percentage, ret.value[3].match_percentage)
    /\ PctLess(ret.value[2].match_percentage, ret.value[1].match_percentage)

\* The skills of the universe found in both lists, counted once each.
SharedSkills(job_skills, skills) ==
    {s \in Skills : (\E i \in 1..Len(job_skills) : job_skills[i] = s)
                    /\ (\E j \in 1..Len(skills) : skills[j] = s)}

DistinctJobSkills(job_skills) ==
    {s \in Skills : \E i \in 1..Len(job_skills) : job_skills[i] = s}

\* C2: after rank_candidates every candidate's match_score is the number of
\* distinct skills in both the job skills and its own skills, and its
\* match_percentage is 100 * match_score / |jobSkills| for a non-empty job
\* skill set and 0 for an empty one, in which case the input order is kept.
C2_ScoreAndPercentage ==
    pc = "done" =>
        LET out == ret.value
            n == Cardinality(DistinctJobSkills(args.job_skills))
        IN  /\ \A i \in 1..Len(out) :
                   LET c == out[i]
                       shared == Cardinality(SharedSkills(args.job_skills, c.skills))
                   IN  /\ c.match_score = shared
                       /\ n > 0 => c.match_percentage[1] * n
                                       = 100 * shared * c.match_percentage[2]
                       /\ n = 0 => c.match_percentage[1] = 0
                       /\ c.match_percentage[2] > 0
            /\ n = 0 => /\ NamesOf(out) = NamesOf(args.candidate_data)
                        /\ \A i \in 1..Len(out) : out[i].match_score = 0

\* A job skill list with a duplicate, and a candidate holding one of two
\* distinct job skills: 1 of 2, whatever the list lengths.
C2_Witness ==
    /\ pc = "done"
    /\ Len(args.job_skills) > Cardinality(Range(args.job_skills))
    /\ \E i \in 1..Len(ret.value) :
           /\ ret.value[i].match_score = 1
           /\ Len(ret.value[i].skills) = 2
    /\ \E j \in 1..Len(ret.value) : ret.value[j].match_score = 0

\* C3: after rank_candidates every candidate has 0 <= match_percentage <= 100,
\* match_score <= |job_skills| and match_score <= |candidate.skills|.
C3_ScoreBounds ==
    pc = "done" =>
        \A i \in 1..Len(ret.value) :
            LET c == ret.value[i]
            IN  /\ c.match_percentage[2] > 0
                /\ 0 <= c.match_percentage[1]
                /\ c.match_percentage[1] <= 100 * c.match_percentage[2]
                /\ c.match_score >= 0
                /\ c.match_score <= Cardinality(Range(args.job_skills))
                /\ c.match_score <= Len(args.job_skills)
                /\ c.match_score <= Cardinality(Range(c.skills))
                /\ c.match_score <= Len(c.skills)

\* A candidate that lists a job skill twice, scored at the full 100%.
C3_Witness ==
    /\ pc = "done"
    /\ \E i \in 1..Len(ret.value) :
           LET c == ret.value[i]
           IN  /\ Len(c.skills) > Cardinality(Range(c.skills))
               /\ c.match_score = 1
               /\ c.match_percentage[1] = 100 * c.match_percentage[2]

(***************************************************************************)
(* Texts and the spaCy pipeline (src/src/utils.py).                        *)
(*                                                                         *)
(* A text is modelled by what the program reads of it:                     *)
(*   tokens   - its tokenization, read by the phrase matcher;              *)
(*   ents     - the entities the recognizer finds in it, in order;         *)
(*   atoms    - its characters, read by the projects pattern;              *)
(*   too_long - whether it is longer than nlp.max_length.                  *)
(***************************************************************************)
MkText(tokens, ents, atoms, too_long) ==
    [tokens |-> tokens, ents |-> ents, atoms |-> atoms, too_long |-> too_long]

\* The empty string.
EmptyText == MkText(<<>>, <<>>, <<>>, FALSE)

\* nlp(text): Language.__call__ raises ValueError for a text longer than
\* nlp.max_length, and otherwise returns the Doc.
nlp(text) ==
    IF text.too_long
    THEN Raise("ValueError")
    ELSE Return([tokens |-> text.tokens, ents |-> text.ents])

(***************************************************************************)
(* refined_extract_skills (src/src/utils.py).                              *)
(*                                                                         *)
(* A token is a word with the letter case it is written in:                *)
(* [w |-> the word in lower case, f |-> "lower" | "title" | "upper"],      *)
(* so "PYTHON" is [w |-> "python", f |-> "upper"].                         *)
(***************************************************************************)
MaxTokens == 3

Tok(w, f) == [w |-> w, f |-> f]

\* str.title() of a token's text: first letter upper case, the rest lower case.
TitleToken(t) == Tok(t.w, "title")

\* doc[start:end].text.title()
Title(span) == [i \in 1..Len(span) |-> TitleToken(span[i])]

\* The phrases of PREDEFINED_SKILLS the model keeps, as make_doc tokenizes them:
\* "Python", "SQL", "Machine Learning".
PREDEFINED_SKILLS ==
    << <<Tok("python", "title")>>,
       <<Tok("sql", "upper")>>,
       <<Tok("machine", "title"), Tok("learning", "title")>> >>

\* skill_patterns = [nlp.make_doc(skill) for skill in PREDEFINED_SKILLS]
skill_patterns == PREDEFINED_SKILLS

\* PhraseMatcher(nlp.vocab) matches on its default attribute, ORTH: a pattern
\* matches a span whose tokens have the pattern's verbatim text.
TokenMatches(token, pattern_token) == token = pattern_token

\* matcher(doc): the (start, end) spans, end exclusive as in spaCy, that some
\* pattern matches.
PhraseMatcher(tokens, patterns) ==
    {<<start, start + Len(patterns[p])>> :
        <<start, p>> \in
            {<<i, q>> \in (1..Len(tokens)) \X (1..Len(patterns)) :
                /\ i + Len(patterns[q]) - 1 <= Len(tokens)
                /\ \A k \in 1..Len(patterns[q]) :
                       TokenMatches(tokens[i + k - 1], patterns[q][k])}}

\* set(doc[start:end].text.title() for _, start, end in matches)
ExtractedSkillSet(tokens, patterns) ==
    {Title(SubSeq(tokens, m[1], m[2] - 1)) : m \in PhraseMatcher(tokens, patterns)}

\* list(set(...)): the set's elements, each once, in an order Python does not fix.
ListsOfSet(S) == {q \in [1..Cardinality(S) -> S] : Range(q) = S}

\* The outcomes refined_extract_skills may have for a text: the exception of
\* nlp(text), or one of the lists of the skills found.
refined_extract_skills(text, patterns) ==
    LET doc == nlp(text)
    IN  IF doc.kind = "raise"
        THEN {doc}
        ELSE {Return(skills) :
                 skills \in ListsOfSet(ExtractedSkillSet(doc.value.tokens, patterns))}

Words == {"python", "sql", "machine", "learning", "use"}

Forms == {"lower", "title", "upper"}

Tokens == {Tok(w, f) : w \in Words, f \in Forms}

SkillsInit ==
    /\ \E tokens \in SeqsUpTo(Tokens, MaxTokens) :
           args = [text |-> MkText(tokens, <<>>, <<>>, FALSE)]
    /\ PureInit

CallRefinedExtractSkills ==
    /\ pc = "call"
    /\ ret' \in refined_extract_skills(args.text, skill_patterns)
    /\ pc' = "done"
    /\ PureUnchanged

SkillsNext == CallRefinedExtractSkills

SpecSkills == SkillsInit /\ [][SkillsNext]_vars

\* The words of a span, letter case set aside.
Folded(span) == [i \in 1..Len(span) |-> span[i].w]

\* The phrase occurs contiguously in the tokens, letter case set aside.
OccursModuloCase(tokens, phrase) ==
    \E i \in 1..Len(tokens) :
        /\ i + Len(phrase) - 1 <= Len(tokens)
        /\ Folded(SubSeq(tokens, i, i + Len(phrase) - 1)) = Folded(phrase)

\* C4: refined_extract_skills reports a vocabulary phrase whenever its tokens
\* appear contiguously in the text's tokens regardless of letter case, each
\* reported phrase is title-cased, and no phrase is reported twice.
C4_CaseInsensitiveMatch ==
    pc = "done" =>
        /\ ret.kind = "return"
        /\ \A p \in 1..Len(skill_patterns) :
               OccursModuloCase(args.text.tokens, skill_patterns[p])
                   => Title(skill_patterns[p]) \in Range(ret.value)
        /\ \A i \in 1..Len(ret.value) : ret.value[i] = Title(ret.value[i])
        /\ \A i, j \in 1..Len(ret.value) : ret.value[i] = ret.value[j] => i = j

(***************************************************************************)
(* calculate_score (src/main.py).                                          *)
(*                                                                         *)
(* A text is a sequence of characters: a letter in either case, a digit    *)
(* (a word character without case) and a space (not a word character).     *)
(***************************************************************************)
MaxTextLen == 3

Chars == {"a", "A", "1", " "}

\* A seeded fault: the text compared in the case it is written in.
NotLowered(c) == c

\* str.lower() of one character.
LowerChar(c) == IF c = "A" THEN "a" ELSE c

\* str.lower()
lower(text) == [i \in 1..Len(text) |-> LowerChar(text[i])]

\* \w of the regular expression.
IsWordChar(c) == c \in {"a", "A", "1"}

\* re.findall(r'\w+', text) from position i on: the scan takes the longest run
\* of word characters at the first position that starts one, and goes on
\* behind it. `word` is the run being read.
RECURSIVE FindAllFrom(_, _, _)
FindAllFrom(text, i, word) ==
    IF i > Len(text)
    THEN IF word = <<>> THEN <<>> ELSE <<word>>
    ELSE IF IsWordChar(text[i])
         THEN FindAllFrom(text, i + 1, Append(word, text[i]))
         ELSE IF word = <<>>
              THEN FindAllFrom(text, i + 1, <<>>)
              ELSE <<word>> \o FindAllFrom(text, i + 1, <<>>)

findall_words(text) == FindAllFrom(text, 1, <<>>)

\* set(re.findall(r'\w+', text.lower()))
WordSet(text) == Range(findall_words(lower(text)))

calculate_score(resume, jd) ==
    LET resume_words == WordSet(resume)
        jd_words == WordSet(jd)
    IN  IF jd_words = {}
        THEN Return(Percentage(0, 1))
        ELSE LET matching_words == resume_words \cap jd_words
             IN  Return(Percentage(100 * Cardinality(matching_words),
                                   Cardinality(jd_words)))

Texts == SeqsUpTo(Chars, MaxTextLen)

ScoreInit ==
    /\ args \in [resume : Texts, jd : Texts]
    /\ PureInit

CallCalculateScore ==
    /\ pc = "call"
    /\ ret' = calculate_score(args.resume, args.jd)
    /\ pc' = "done"
    /\ PureUnchanged

ScoreNext == CallCalculateScore

SpecScore == ScoreInit /\ [][ScoreNext]_vars

\* The letter a character is whichever case it is written in.
FoldChar(c) == IF c \in {"a", "A"} THEN "a" ELSE c

\* The lowercased word tokens of a text, stated by position: the maximal runs
\* of word characters.
TokenSetOf(text) ==
    {[k \in 1..(j - i + 1) |-> FoldChar(text[i + k - 1])] :
        <<i, j>> \in
            {<<a, b>> \in (1..Len(text)) \X (1..Len(text)) :
                /\ a <= b
                /\ \A k \in a..b : text[k] # " "
                /\ (a = 1 \/ text[a - 1] = " ")
                /\ (b = Len(text) \/ text[b + 1] = " ")}}

\* The same text with the case of every letter swapped.
SwapCase(text) ==
    [i \in 1..Len(text) |->
        IF text[i] = "a" THEN "A" ELSE IF text[i] = "A" THEN "a" ELSE text[i]]

\* The same text with every token said twice.
Repeated(text) == text \o <<" ">> \o text

\* C8: calculate_score returns 0 when the job description has no word token,
\* and otherwise 100 * |resumeTokens \cap jdTokens| / |jdTokens| over the
\* lowercased, deduplicated token sets; the result is within [0, 100] and
\* does not change with token repetition or letter case in either text.
C8_LexicalScore ==
    pc = "done" =>
        LET r == TokenSetOf(args.resume)
            j == TokenSetOf(args.jd)
            p == ret.value
        IN  /\ ret.kind = "return"
            /\ p[2] > 0
            /\ j = {} => p[1] = 0
            /\ j # {} => p[1] * Cardinality(j) = 100 * Cardinality(r \cap j) * p[2]
            /\ 0 <= p[1] /\ p[1] <= 100 * p[2]
            /\ calculate_score(SwapCase(args.resume), args.jd) = ret
            /\ calculate_score(args.resume, SwapCase(args.jd)) = ret
            /\ calculate_score(Repeated(args.resume), Repeated(args.jd)) = ret

\* A resume holding one of the job description's two tokens, in the other case.
C8_Witness ==
    /\ pc = "done"
    /\ args.resume = <<"A">>
    /\ args.jd = <<"a", " ", "1">>
    /\ ret = Return(Percentage(100, 2))

(***************************************************************************)
(* detailed_extract_projects (src/src/utils.py).                           *)
(*                                                                         *)
(* A text is a sequence of atoms: a header word or a terminator word in    *)
(* some letter case, other text "x", and a line break, the white space.    *)
(* The pattern, under re.IGNORECASE | re.DOTALL, is                        *)
(*   (?:projects|portfolio|personal projects)\s*\n(.*?)                    *)
(*   (?:\n\n\s*(?:skills|experience|education)|$)                          *)
(***************************************************************************)
MaxAtoms == 8

Atoms == {"Projects", "Skills", "x", "\n"}

\* re.IGNORECASE: the atom in lower case.
LowerAtom(a) ==
    CASE a = "Projects" -> "projects"
      [] a = "Skills" -> "skills"
      [] OTHER -> a

\* (?:projects|portfolio|personal projects)
IsHeader(a) == LowerAtom(a) \in {"projects", "portfolio", "personal projects"}

\* (?:skills|experience|education)
IsTerminator(a) == LowerAtom(a) \in {"skills", "experience", "education"}

\* \s
IsSpace(a) == a \in {"\n", " "}

\* Greedy \s* from position i: the first position at or behind i that holds no
\* white space (Len + 1 at the end of the text).
RECURSIVE SpaceRunEnd(_, _)
SpaceRunEnd(text, i) ==
    IF i <= Len(text) /\ IsSpace(text[i]) THEN SpaceRunEnd(text, i + 1) ELSE i

\* \s*\n behind the header word at i: \s* takes the whole run of white space
\* and gives back to its last line break, which \n takes. The position behind
\* that line break, where the group starts; 0 when the run holds no line
\* break and the header does not match at i.
RECURSIVE LastLineBreak(_, _, _)
LastLineBreak(text, from, to) ==
    IF to < from THEN 0
    ELSE IF text[to] = "\n" THEN to ELSE LastLineBreak(text, from, to - 1)

GroupStart(text, i) ==
    LET nl == LastLineBreak(text, i + 1, SpaceRunEnd(text, i + 1) - 1)
    IN  IF nl = 0 THEN 0 ELSE nl + 1

\* \n\n\s*(?:skills|experience|education) at position e: the position behind
\* the terminator word, or 0 when it does not match there.
TerminatorEnd(text, e) ==
    IF e + 1 <= Len(text) /\ text[e] = "\n" /\ text[e + 1] = "\n"
    THEN LET r == SpaceRunEnd(text, e + 2)
         IN  IF r <= Len(text) /\ IsTerminator(text[r]) THEN r + 1 ELSE 0
    ELSE 0

\* $ without re.MULTILINE: the end of the text, or just before a line break
\* that ends the text.
DollarAt(text, e) ==
    \/ e = Len(text) + 1
    \/ e = Len(text) /\ text[e] = "\n"

\* A seeded fault: the greedy (.*), which under re.DOTALL runs to the end of
\* the text, where $ matches.
GreedyGroup(text, e) == <<Len(text) + 1, Len(text) + 1>>

\* (.*?) followed by the closing alternation: the group grows one atom at a
\* time from e until the terminator or $ matches. <<group end, match end>>.
RECURSIVE LazyGroup(_, _)
LazyGroup(text, e) ==
    IF TerminatorEnd(text, e) # 0 THEN <<e, TerminatorEnd(text, e)>>
    ELSE IF DollarAt(text, e) THEN <<e, e>>
    ELSE LazyGroup(text, e + 1)

\* re.findall from position pos: the leftmost match, its group, and the search
\* goes on where the match ended.
RECURSIVE FindAllSections(_, _)
FindAllSections(text, pos) ==
    IF pos > Len(text) THEN <<>>
    ELSE IF IsHeader(text[pos]) /\ GroupStart(text, pos) # 0
         THEN LET c == GroupStart(text, pos)
                  m == LazyGroup(text, c)
              IN  <<SubSeq(text, c, m[1] - 1)>> \o FindAllSections(text, m[2])
         ELSE FindAllSections(text, pos + 1)

\* str.strip()
RECURSIVE strip(_)
strip(t) ==
    IF t = <<>> THEN <<>>
    ELSE IF IsSpace(t[1]) THEN strip(Tail(t))
    ELSE IF IsSpace(t[Len(t)]) THEN strip(SubSeq(t, 1, Len(t) - 1))
    ELSE t

NoProjects == <<"No projects section found.">>

detailed_extract_projects(text) ==
    LET project_sections == FindAllSections(text.atoms, 1)
    IN  IF project_sections # <<>>
        THEN [i \in 1..Len(project_sections) |-> strip(project_sections[i])]
        ELSE <<NoProjects>>

ProjectsInit ==
    /\ \E atoms \in SeqsUpTo(Atoms, MaxAtoms) :
           args = [text |-> MkText(<<>>, <<>>, atoms, FALSE)]
    /\ PureInit

CallDetailedExtractProjects ==
    /\ pc = "call"
    /\ ret' = Return(detailed_extract_projects(args.text))
    /\ pc' = "done"
    /\ PureUnchanged

ProjectsNext == CallDetailedExtractProjects

SpecProjects == ProjectsInit /\ [][ProjectsNext]_vars

\* The header occurrences of a text: a header word followed, after any white
\* space, by a line break.
HeaderOccurrences(text) ==
    {i \in 1..Len(text) :
        /\ text[i] = "Projects"
        /\ \E j \in (i + 1)..Len(text) :
               /\ text[j] = "\n"
               /\ \A k \in (i + 1)..(j - 1) : text[k] \in {"\n", " "}}

\* Where the block of the occurrence at i starts: behind the last line break
\* of the white space that follows the header word.
BlockStart(text, i) ==
    1 + CHOOSE j \in (i + 1)..Len(text) :
            /\ text[j] = "\n"
            /\ \A k \in (i + 1)..(j - 1) : text[k] \in {"\n", " "}
            /\ \A k \in (j + 1)..Len(text) :
                   (\A q \in (j + 1)..k : text[q] \in {"\n", " "}) => text[k] # "\n"

\* A blank line followed, after any white space, by a terminator word, the
\* blank line starting at e; w is where the word stands.
BlankLineTerminator(text, e, w) ==
    /\ e + 1 < w /\ w <= Len(text)
    /\ text[e] = "\n" /\ text[e + 1] = "\n"
    /\ \A k \in (e + 2)..(w - 1) : text[k] \in {"\n", " "}
    /\ text[w] = "Skills"

\* The blank lines plus terminator at or behind position c.
TerminatorsFrom(text, c) ==
    {e \in c..Len(text) : \E w \in 1..Len(text) : BlankLineTerminator(text, e, w)}

Min(S) == CHOOSE x \in S : \A y \in S : x <= y

\* Where the block starting at c ends (exclusive) and where its match ends:
\* at the first blank line plus terminator, or at the end of the text (before
\* a line break that ends it).
BlockEnd(text, c) ==
    IF TerminatorsFrom(text, c) # {} THEN Min(TerminatorsFrom(text, c))
    ELSE IF c <= Len(text) /\ text[Len(text)] = "\n" THEN Len(text)
    ELSE Len(text) + 1

MatchEnd(text, c) ==
    IF TerminatorsFrom(text, c) # {}
    THEN 1 + CHOOSE w \in 1..Len(text) :
                 BlankLineTerminator(text, Min(TerminatorsFrom(text, c)), w)
    ELSE BlockEnd(text, c)

\* The block of the occurrence at i, as the text gives it.
BlockOf(text, i) ==
    strip(SubSeq(text, BlockStart(text, i), BlockEnd(text, BlockStart(text, i)) - 1))

\* The occurrences in text order.
RECURSIVE Ascending(_)
Ascending(S) == IF S = {} THEN <<>> ELSE <<Min(S)>> \o Ascending(S \ {Min(S)})

\* Every occurrence but the last has its block closed, by a blank line plus
\* terminator, before the next occurrence.
EveryBlockClosed(text) ==
    LET h == Ascending(HeaderOccurrences(text))
    IN  \A n \in 1..(Len(h) - 1) : MatchEnd(text, BlockStart(text, h[n])) <= h[n + 1]

\* C9 as claimed: every header occurrence produces its own block, so a text
\* with k occurrences gives k blocks, and no block holds text of a later
\* occurrence.
C9_OneBlockPerHeader ==
    pc = "done" =>
        LET h == Ascending(HeaderOccurrences(args.text.atoms))
        IN  Len(h) >= 1 =>
                /\ Len(ret.value) = Len(h)
                /\ \A n \in 1..Len(h) : ret.value[n] = BlockOf(args.text.atoms, h[n])
                /\ \A n \in 1..(Len(h) - 1) :
                       BlockEnd(args.text.atoms, BlockStart(args.text.atoms, h[n])) <= h[n + 1]

\* C9 as amended: a header occurrence behind the end of the previous match
\* produces its own block; a block runs to the first blank line plus
\* terminator behind its start, or else to the end of the text, and takes in
\* the header occurrences in between. A text with k >= 1 occurrences gives
\* between 1 and k blocks, the first that of the first occurrence, and gives
\* k blocks, one per occurrence, exactly when every occurrence but the last
\* has its block closed by a terminator before the next occurrence.
C9_BlocksMergeUnlessClosed ==
    pc = "done" =>
        LET h == Ascending(HeaderOccurrences(args.text.atoms))
        IN  /\ Len(h) = 0 => ret.value = <<NoProjects>>
            /\ Len(h) >= 1 =>
                   /\ 1 <= Len(ret.value) /\ Len(ret.value) <= Len(h)
                   /\ ret.value[1] = BlockOf(args.text.atoms, h[1])
                   /\ Len(ret.value) = Len(h) <=> EveryBlockClosed(args.text.atoms)
                   /\ EveryBlockClosed(args.text.atoms) =>
                          \A n \in 1..Len(h) : ret.value[n] = BlockOf(args.text.atoms, h[n])

\* Two header occurrences, the first block closed by a blank line plus
\* terminator before the second: two blocks.
C9_WitnessClosed ==
    /\ pc = "done"
    /\ args.text.atoms = <<"Projects", "\n", "x", "\n", "\n", "Skills", "Projects">> \o <<"\n">>
    /\ Len(ret.value) = 2

\* Two header occurrences with no terminator between them: one block, which
\* holds the second header.
C9_WitnessMerged ==
    /\ pc = "done"
    /\ args.text.atoms = <<"Projects", "\n", "x", "\n", "Projects", "\n", "x">>
    /\ ret.value = << <<"x", "\n", "Projects", "\n", "x">> >>

(***************************************************************************)
(* detailed_extract_experience and detailed_extract_education              *)
(* (src/src/utils.py). An entity is [text |-> its span, label |-> label].  *)
(***************************************************************************)
MaxEnts == 2

Ent(text, label) == [text |-> text, label |-> label]

Entities ==
    {Ent("Acme Corp", "ORG"), Ent("Stanford University", "ORG"),
     Ent("City COLLEGE", "PRODUCT"), Ent("Alice", "PERSON")}

\* any(keyword in ent.text.lower() for keyword in education_keywords), with
\* education_keywords = ["university", "college", "institute"]: the spans of
\* the model whose text in lower case holds one of them.
HasEducationKeyword(span) == span \in {"Stanford University", "City COLLEGE"}

NoExperience == "Could not automatically extract experience."

NoEducation == "Could not automatically extract education."

IsOrg(ent) == ent.label = "ORG"

IsEducation(ent) == ent.label \in {"ORG", "PRODUCT"} /\ HasEducationKeyword(ent.text)

\* The function has no handler: what nlp(text) raises leaves it.
detailed_extract_experience(text) ==
    LET doc == nlp(text)
    IN  IF doc.kind = "raise" THEN doc
        ELSE LET orgs == SelectSeq(doc.value.ents, IsOrg)
                 experience == [i \in 1..Len(orgs) |-> <<"Worked at: ", orgs[i].text>>]
             IN  Return(IF experience # <<>> THEN experience ELSE <<NoExperience>>)

detailed_extract_education(text) ==
    LET doc == nlp(text)
    IN  IF doc.kind = "raise" THEN doc
        ELSE LET found == SelectSeq(doc.value.ents, IsEducation)
                 education == [i \in 1..Len(found) |-> <<"Studied at: ", found[i].text>>]
             IN  Return(IF education # <<>> THEN education ELSE <<NoEducation>>)

ExtractInit ==
    /\ \E ents \in SeqsUpTo(Entities, MaxEnts), too_long \in BOOLEAN :
           args = [text |-> MkText(<<>>, ents, <<>>, too_long)]
    /\ PureInit

CallDetailedExtractExperience ==
    /\ pc = "call"
    /\ ret' = [fn |-> "detailed_extract_experience",
               outcome |-> detailed_extract_experience(args.text)]
    /\ pc' = "done"
    /\ PureUnchanged

CallDetailedExtractEducation ==
    /\ pc = "call"
    /\ ret' = [fn |-> "detailed_extract_education",
               outcome |-> detailed_extract_education(args.text)]
    /\ pc' = "done"
    /\ PureUnchanged

ExtractNext == CallDetailedExtractExperience \/ CallDetailedExtractEducation

SpecExtract == ExtractInit /\ [][ExtractNext]_vars

\* The recognizer fails on the text.
RecognizerFails(text) == text.too_long

\* C6: when the entity recognizer fails, the extractor does not propagate the
\* failure: detailed_extract_experience returns exactly
\* ["Could not automatically extract experience."] and
\* detailed_extract_education exactly
\* ["Could not automatically extract education."].
C6_RecognizerFailureDegrades ==
    (pc = "done" /\ RecognizerFails(args.text)) =>
        /\ ret.fn = "detailed_extract_experience"
               => ret.outcome = Return(<<"Could not automatically extract experience.">>)
        /\ ret.fn = "detailed_extract_education"
               => ret.outcome = Return(<<"Could not automatically extract education.">>)

(***************************************************************************)
(* read_docx, read_pdf and get_chatbot_response (src/src/utils.py).        *)
(*                                                                         *)
(* An uploaded file is [name, type, fault, text]: its MIME type decides    *)
(* the reader, fault is what parsing it raises ("none" when it parses) and *)
(* text is what the reader extracts from it when it parses.                *)
(***************************************************************************)
MaxResumes == 2
MaxQuestions == 2

\* try: ... return the text; except Exception: st.error(...); return ""
read_docx(file) ==
    IF file.fault # "none" THEN Return(EmptyText) ELSE Return(file.text)

\* try: ... return the text; except PyPDF2.errors.PdfReadError: st.warning(...);
\* return ""; except Exception: st.error(...); return ""
read_pdf(file) ==
    IF file.fault = "PdfReadError" THEN Return(EmptyText)
    ELSE IF file.fault # "none" THEN Return(EmptyText)
    ELSE Return(file.text)

CantGenerate == "Sorry, I can't generate a response right now."

ErrorApology == "Sorry, I encountered an error while trying to generate a response."

\* What the calls inside the try block come to, by what the Gemini API does:
\* configure, list_models, generate_content or response.text raises, no model
\* supports generateContent, or the model answers.
AdapterOutcomes ==
    {"ok", "configure_error", "list_models_error", "no_model",
     "generate_error", "no_text"}

\* response.text of a call that succeeds.
ModelAnswer == "I could not find an answer in the provided documents."

TryBlock(question, context, adapter) ==
    IF adapter = "no_model" THEN Return(CantGenerate)
    ELSE IF adapter = "ok" THEN Return(ModelAnswer)
    ELSE Raise(adapter)

\* A seeded fault: no except clause.
NoExcept(outcome) == outcome

\* except Exception as e: st.error(...); return the apology
ExceptException(outcome) ==
    IF outcome.kind = "raise" THEN Return(ErrorApology) ELSE outcome

get_chatbot_response(question, context, adapter) ==
    ExceptException(TryBlock(question, context, adapter))

(***************************************************************************)
(* The session script (src/app.py). One action is one run of the script.   *)
(***************************************************************************)
File(name, type, fault, text) ==
    [name |-> name, type |-> type, fault |-> fault, text |-> text]

Docx == "application/vnd.openxmlformats-officedocument.wordprocessingml.document"

Pdf == "application/pdf"

PythonText ==
    MkText(<<Tok("use", "title"), Tok("python", "title")>>,
           <<Ent("Acme Corp", "ORG")>>,
           <<"x">>, FALSE)

SqlText ==
    MkText(<<Tok("python", "title"), Tok("sql", "upper")>>,
           <<Ent("Stanford University", "ORG")>>,
           <<"Projects", "\n", "x">>, FALSE)

UpperText ==
    MkText(<<Tok("python", "upper")>>, <<>>, <<"x">>, FALSE)

HugeText == MkText(<<Tok("python", "title")>>, <<>>, <<"x">>, TRUE)

Files ==
    {File("a.pdf", Pdf, "none", PythonText),
     File("b.docx", Docx, "none", SqlText),
     File("c.pdf", Pdf, "none", UpperText),
     File("corrupt.pdf", Pdf, "PdfReadError", EmptyText),
     File("corrupt.docx", Docx, "Exception", EmptyText),
     File("scan.pdf", Pdf, "none", EmptyText),
     File("huge.pdf", Pdf, "none", HugeText)}

\* "wordprocessingml" in file.type
IsWordprocessing(file) == file.type = Docx

\* read_docx(f) if "wordprocessingml" in f.type else read_pdf(f)
ReadFile(file) == IF IsWordprocessing(file) THEN read_docx(file) ELSE read_pdf(file)

\* `if content:` on a string.
Truthy(content) == content # EmptyText

\* st.session_state with key k set to v.
SetKey(ss, k, v) == [x \in DOMAIN ss \cup {k} |-> IF x = k THEN v ELSE ss[x]]

HasKey(ss, k) == k \in DOMAIN ss

JobDescriptionEntry(jd_content) == [label |-> "JOB DESCRIPTION", content |-> jd_content]

ResumeEntry(name, content) == [label |-> "RESUME", name |-> name, content |-> content]

\* The body of `for resume_file in resume_files` from the files left: the
\* outcomes the loop may have, an exception or the two locals it leaves.
RECURSIVE ResumeLoop(_, _, _)
ResumeLoop(resume_files, candidate_data, full_qa_context) ==
    IF resume_files = <<>>
    THEN {Return([candidate_data |-> candidate_data,
                  full_qa_context |-> full_qa_context])}
    ELSE LET resume_file == Head(resume_files)
             read == ReadFile(resume_file)
         IN  IF read.kind = "raise" THEN {read}
             ELSE IF ~Truthy(read.value)
             THEN ResumeLoop(Tail(resume_files), candidate_data, full_qa_context)
             ELSE LET content == read.value
                      experience == detailed_extract_experience(content)
                      education == detailed_extract_education(content)
                      projects == detailed_extract_projects(content)
                  IN  UNION {
                        IF skills.kind = "raise" THEN {skills}
                        ELSE IF experience.kind = "raise" THEN {experience}
                        ELSE IF education.kind = "raise" THEN {education}
                        ELSE ResumeLoop(
                                 Tail(resume_files),
                                 Append(candidate_data,
                                        [name |-> resume_file.name,
                                         skills |-> skills.value,
                                         experience |-> experience.value,
                                         education |-> education.value,
                                         projects |-> projects]),
                                 Append(full_qa_context,
                                        ResumeEntry(resume_file.name, content)))
                        : skills \in refined_extract_skills(content, skill_patterns)}

\* Lines 43 to 64 without the session state: the outcomes the block may
\* have for two uploads, an exception or the two values it stores.
AnalyzeDocuments(job_description_file, resume_files) ==
    LET read == ReadFile(job_description_file)
    IN  IF read.kind = "raise" THEN {read}
        ELSE LET jd_content == read.value
             IN  UNION {
                   IF job_skills.kind = "raise" THEN {job_skills}
                   ELSE {IF loop.kind = "raise" THEN loop
                         ELSE Return([qa_context |-> loop.value.full_qa_context,
                                      ranked_candidates |->
                                          rank_candidates(job_skills.value,
                                                          loop.value.candidate_data)])
                         : loop \in ResumeLoop(resume_files, <<>>,
                                               <<JobDescriptionEntry(jd_content)>>)}
                   : job_skills \in refined_extract_skills(jd_content, skill_patterns)}

\* The uploads of the model: a job description and one to MaxResumes resumes.
JobDescriptionFiles ==
    {f \in Files : f.name \in {"a.pdf", "corrupt.docx", "huge.pdf"}}

ResumeFiles ==
    {f \in Files : f.name \in {"a.pdf", "b.docx", "corrupt.pdf", "scan.pdf", "huge.pdf"}}

Uploads == SeqsUpTo(ResumeFiles, MaxResumes) \ {<<>>}

\* AnalyzeDocuments over the uploads of the model, computed once.
AnalysisOf ==
    [u \in JobDescriptionFiles \X Uploads |-> AnalyzeDocuments(u[1], u[2])]

\* Lines 38 to 64, entered when the button is pressed and both uploads are
\* there: the outcomes, each the session state the block leaves and the
\* exception that ended it ("none" when it ran to its end).
AnalyzeBlock(ss, job_description_file, resume_files) ==
    LET entered == SetKey(SetKey(ss, "chat_history", <<>>), "analysis_done", TRUE)
    IN  {IF a.kind = "raise"
         THEN [ss |-> entered, exc |-> a.exc]
         ELSE [ss |-> SetKey(SetKey(entered, "qa_context", a.value.qa_context),
                             "ranked_candidates", a.value.ranked_candidates),
               exc |-> "none"]
         : a \in AnalysisOf[<<job_description_file, resume_files>>]}

Message(role, content) == [role |-> role, content |-> content]

\* What st.chat_input returns when nothing was submitted: None, which is falsy.
NoQuestion == ""

\* Lines 67 to 116 for a run that reaches them: the session state they leave,
\* how the run ends, whether the results were shown and whether the chat
\* input was drawn. user_question is NoQuestion when none was submitted.
DisplayBlock(ss, user_question, adapter, key_ok) ==
    LET End(state, outcome, shown, input) ==
            [ss |-> state, outcome |-> outcome, results_shown |-> shown,
             chat_input_shown |-> input]
    IN  IF ~ss.analysis_done THEN End(ss, "completed", FALSE, FALSE)
        ELSE IF ~HasKey(ss, "ranked_candidates") THEN End(ss, "AttributeError", FALSE, FALSE)
        \* pd.DataFrame([])[display_columns]: none of the columns is there
        ELSE IF ss.ranked_candidates = <<>> THEN End(ss, "KeyError", FALSE, FALSE)
        \* st.stop() when the key is missing or a placeholder
        ELSE IF ~key_ok THEN End(ss, "stopped", TRUE, FALSE)
        ELSE IF user_question = NoQuestion THEN End(ss, "completed", TRUE, TRUE)
        ELSE LET asked == SetKey(ss, "chat_history",
                                 Append(ss.chat_history, Message("user", user_question)))
             IN  IF ~HasKey(ss, "qa_context") THEN End(asked, "AttributeError", TRUE, TRUE)
                 ELSE LET answer == get_chatbot_response(user_question, ss.qa_context, adapter)
                      IN  IF answer.kind = "raise"
                          THEN End(asked, answer.exc, TRUE, TRUE)
                          ELSE End(SetKey(asked, "chat_history",
                                          Append(asked.chat_history,
                                                 Message("assistant", answer.value))),
                                   "completed", TRUE, TRUE)

Questions == {"q1"}

\* What a run that reached line 67 did: what set it off, the question and
\* what the Gemini API did if it was a question, the chat history it found,
\* and how the display block ended.
RunRecord(trigger, user_question, adapter, history_before, d) ==
    [trigger |-> trigger, user_question |-> user_question, adapter |-> adapter,
     history_before |-> history_before, reached_display |-> TRUE,
     outcome |-> d.outcome, results_shown |-> d.results_shown,
     chat_input_shown |-> d.chat_input_shown]

\* A run that an exception ended inside the analyze block.
AbortedRun(exc) ==
    [trigger |-> "analyze", user_question |-> NoQuestion, adapter |-> "ok",
     history_before |-> <<>>, reached_display |-> FALSE, outcome |-> exc,
     results_shown |-> FALSE, chat_input_shown |-> FALSE]

\* The session after the first run of the script, which sets the two keys.
Init ==
    /\ session_state = [analysis_done |-> FALSE, chat_history |-> <<>>]
    /\ last_run = RunRecord("load", NoQuestion, "ok", <<>>,
                            DisplayBlock([analysis_done |-> FALSE, chat_history |-> <<>>],
                                         NoQuestion, "ok", FALSE))
    /\ last_analyze = None
    /\ secrets_ok \in BOOLEAN
    /\ args = None
    /\ ret = None
    /\ pc = "session"

\* A run with "Analyze Candidates" pressed and both uploads there: the analyze
\* block, and the display block if no exception ended the run before it.
AnalyzeStep(job_description_file, resume_files) ==
    \E a \in AnalyzeBlock(session_state, job_description_file, resume_files) :
        /\ last_analyze' = [kind |-> "analyze",
                            job_description_file |-> job_description_file,
                            resume_files |-> resume_files,
                            messages |-> <<>>]
        /\ IF a.exc # "none"
           THEN /\ session_state' = a.ss
                /\ last_run' = AbortedRun(a.exc)
           ELSE LET d == DisplayBlock(a.ss, NoQuestion, "ok", secrets_ok)
                IN  /\ session_state' = d.ss
                    /\ last_run' = RunRecord("analyze", NoQuestion, "ok", <<>>, d)

\* The uploads the session is taken through: a job description and one resume.
SessionUploads == {u \in JobDescriptionFiles \X Uploads : Len(u[2]) = 1}

AnalyzeRun ==
    /\ \E u \in SessionUploads : AnalyzeStep(u[1], u[2])
    /\ UNCHANGED <<args, ret, pc, secrets_ok>>

\* A run with neither the button nor a question: an upload changed, or the
\* button was pressed with an upload missing.
Rerun ==
    LET d == DisplayBlock(session_state, NoQuestion, "ok", secrets_ok)
    IN  /\ session_state' = d.ss
        /\ last_run' = RunRecord("rerun", NoQuestion, "ok", session_state.chat_history, d)
        /\ UNCHANGED <<args, ret, pc, last_analyze, secrets_ok>>

\* A run with a question submitted in the chat input the last run drew.
ChatRun ==
    /\ last_run.chat_input_shown
    /\ Len(session_state.chat_history) < 2 * MaxQuestions
    /\ \E user_question \in Questions, adapter \in AdapterOutcomes :
           LET d == DisplayBlock(session_state, user_question, adapter, secrets_ok)
           IN  /\ session_state' = d.ss
               /\ last_run' = RunRecord("chat", user_question, adapter,
                                         session_state.chat_history, d)
               /\ last_analyze' =
                      [last_analyze EXCEPT
                          !.messages = @ \o SubSeq(d.ss.chat_history,
                                                   Len(session_state.chat_history) + 1,
                                                   Len(d.ss.chat_history))]
    /\ UNCHANGED <<args, ret, pc, secrets_ok>>

Next == AnalyzeRun \/ Rerun \/ ChatRun

Spec == Init /\ [][Next]_vars

\* The chat history alternates user and assistant and ends on an assistant.
Alternates(history) ==
    /\ Len(history) % 2 = 0
    /\ \A i \in 1..Len(history) :
           history[i].role = IF i % 2 = 1 THEN "user" ELSE "assistant"

\* C7: for every submitted question, whether the chat adapter succeeds or
\* fails, get_chatbot_response returns a string without raising (a fixed
\* apology on failure) and chat_history gains exactly two entries in order,
\* the user's question then one assistant message; so chat_history always
\* alternates user and assistant and has even length.
C7_ChatExchangeRecorded ==
    /\ Alternates(session_state.chat_history)
    /\ last_run.trigger = "chat" =>
           /\ last_run.outcome = "completed"
           /\ \E answer \in {CantGenerate, ErrorApology, ModelAnswer} :
                  /\ session_state.chat_history =
                         last_run.history_before
                             \o <<Message("user", last_run.user_question),
                                  Message("assistant", answer)>>
                  /\ last_run.adapter # "ok" => answer \in {CantGenerate, ErrorApology}
                  /\ last_run.adapter = "ok" => answer \notin {CantGenerate, ErrorApology}

\* A second question whose generate_content call fails: the apology is
\* recorded behind it.
C7_Witness ==
    /\ last_run.trigger = "chat"
    /\ last_run.adapter = "generate_error"
    /\ Len(session_state.chat_history) = 4
    /\ session_state.chat_history[3] = Message("user", "q1")
    /\ session_state.chat_history[4] = Message("assistant", ErrorApology)

\* C10 as claimed: whenever analysis_done is true at the display step,
\* ranked_candidates and qa_context are set and were built from the documents
\* of the most recent analyze run, and chat_history holds only the messages
\* exchanged since that run started.
C10_ResultsOfLatestAnalyze ==
    (last_run.reached_display /\ session_state.analysis_done) =>
        /\ last_analyze.kind = "analyze"
        /\ HasKey(session_state, "ranked_candidates")
        /\ HasKey(session_state, "qa_context")
        /\ \E a \in AnalysisOf[<<last_analyze.job_description_file,
                                 last_analyze.resume_files>>] :
               /\ a.kind = "return"
               /\ a.value.qa_context = session_state.qa_context
               /\ a.value.ranked_candidates = session_state.ranked_candidates
        /\ session_state.chat_history = last_analyze.messages

(***************************************************************************)
(* One analyze run of a fresh session over the uploads of the model.       *)
(***************************************************************************)
AnalyzeInit ==
    /\ args \in [job_description_file : JobDescriptionFiles, resume_files : Uploads]
    /\ session_state = [analysis_done |-> FALSE, chat_history |-> <<>>]
    /\ last_run = RunRecord("load", NoQuestion, "ok", <<>>,
                            DisplayBlock([analysis_done |-> FALSE, chat_history |-> <<>>],
                                         NoQuestion, "ok", FALSE))
    /\ last_analyze = None
    /\ secrets_ok \in BOOLEAN
    /\ ret = None
    /\ pc = "call"

CallAnalyze ==
    /\ pc = "call"
    /\ AnalyzeStep(args.job_description_file, args.resume_files)
    /\ pc' = "done"
    /\ UNCHANGED <<args, ret, secrets_ok>>

AnalyzeNext == CallAnalyze

SpecAnalyze == AnalyzeInit /\ [][AnalyzeNext]_vars

\* Text extraction of the file succeeded: the reader's parse raised nothing.
ExtractionSucceeded(file) == file.fault = "none"

\* How many elements of a sequence are x.
Count(seq, x) == Cardinality({i \in 1..Len(seq) : seq[i] = x})

\* C5 as claimed: in one analyze run a resume whose text extraction fails is
\* skipped and the rest are processed; the ranked list holds exactly one
\* candidate, named by its filename, for each resume whose extraction
\* succeeded and none for a failed one, the QA context is the job description
\* followed by the successfully read resumes in upload order, and the batch is
\* never aborted.
C5_FailedResumesSkipped ==
    pc = "done" =>
        LET read == SelectSeq(args.resume_files, ExtractionSucceeded)
            jd == args.job_description_file
        IN  /\ last_run.reached_display
            /\ HasKey(session_state, "ranked_candidates")
            /\ HasKey(session_state, "qa_context")
            /\ Len(session_state.ranked_candidates) = Len(read)
            /\ \A f \in Range(args.resume_files) :
                   Count(NamesOf(session_state.ranked_candidates), f.name)
                       = Count(NamesOf(read), f.name)
            /\ session_state.qa_context =
                   <<JobDescriptionEntry(IF ExtractionSucceeded(jd)
                                         THEN jd.text ELSE EmptyText)>>
                       \o [i \in 1..Len(read) |-> ResumeEntry(read[i].name, read[i].text)]

=============================================================================
